---- MODULE Spec2Model ----
(***************************************************************************)
(* Rule-based validation engine of qa_agent: the rule catalog              *)
(* (predefined_tests.py), the single-table orchestrators process_mapping   *)
(* and process_scd, and the batch coordinators process_config_table and    *)
(* process_scd_config_table (test_executor.py), running on one asyncio     *)
(* event loop whose queries execute in the default thread pool             *)
(* (bigquery_service.execute_query).                                       *)
(***************************************************************************)
EXTENDS Integers, Sequences, FiniteSets, TLC

(***************************************************************************)
(* Bounds of the model.                                                    *)
(***************************************************************************)
\* tables in one batch
MaxTables == 2
\* threads of the pool that runs the queries (asyncio.to_thread)
Workers == 2
\* rule queries of one call that fault or return rows
MaxEvents == 1
\* largest number of rows a rule query returns
MaxRows == 11
\* largest row count a table or file reports
MaxCount == 1
\* longest explicit list of rule ids handed to get_enabled_tests alone
MaxIds == 3
\* longest list of primary keys a predicate is compiled for alone
MaxKeys == 3
\* most rows of the config table the scheduler is synced from
MaxConfigs == 2
\* most rows (versions) of a table that a temporal predicate is run over
MaxVersions == 3
\* latest date of such a table
MaxDate == 3

(***************************************************************************)
(* Python values.  None is Null, a key that a dict does not hold is        *)
(* Absent; for list-valued fields the two are the one-element lists below  *)
(* (no list of the program holds these markers).                           *)
(***************************************************************************)
Null == "null"
Absent == "absent"
NullList == <<"null">>
AbsentList == <<"absent">>

\* dict.get(key, default)
Get(v, default) == IF v = Absent THEN default ELSE v
GetList(v, default) == IF v = AbsentList THEN default ELSE v

\* bool(v) of a string field and of a list field
Truthy(v) == v \notin {Null, Absent, ""}
TruthyList(v) == v \notin {NullList, AbsentList, <<>>}

Min(a, b) == IF a < b THEN a ELSE b
Abs(a) == IF a < 0 THEN 0 - a ELSE a

RECURSIVE SeqSum(_)
SeqSum(s) == IF s = <<>> THEN 0 ELSE Head(s) + SeqSum(Tail(s))

Range(s) == {s[i] : i \in 1..Len(s)}

(***************************************************************************)
(* The rule catalog, in the insertion order of the PREDEFINED_TESTS dict.  *)
(***************************************************************************)
PREDEFINED_TESTS ==
    << "table_exists", "surrogate_key_null", "surrogate_key_unique",
       "row_count_match", "no_nulls_required", "no_duplicates_pk",
       "referential_integrity", "scd_primary_key_null", "scd_primary_key_unique",
       "scd2_invalid_flag_combination", "scd2_no_record_after_current",
       "scd2_begin_date_null", "scd2_end_date_null", "scd2_flag_null",
       "scd2_one_current_row", "scd2_current_date_check", "scd2_date_order",
       "scd2_unique_begin_date", "scd2_unique_end_date", "scd2_continuity",
       "numeric_range", "date_range", "pattern_validation", "outlier_detection" >>

CatalogIds == Range(PREDEFINED_TESTS)

\* TestTemplate.is_global
is_global(id) == id \in {"table_exists", "row_count_match", "no_nulls_required", "no_duplicates_pk"}

\* TestTemplate.category
category(id) ==
    CASE id = "table_exists" -> "smoke"
      [] id \in {"surrogate_key_null", "row_count_match", "no_nulls_required",
                 "scd_primary_key_null", "scd2_begin_date_null",
                 "scd2_end_date_null", "scd2_flag_null"} -> "completeness"
      [] id \in {"surrogate_key_unique", "no_duplicates_pk", "referential_integrity",
                 "scd_primary_key_unique", "scd2_invalid_flag_combination",
                 "scd2_one_current_row", "scd2_unique_begin_date",
                 "scd2_unique_end_date"} -> "integrity"
      [] id \in {"scd2_no_record_after_current", "scd2_current_date_check",
                 "scd2_date_order", "scd2_continuity"} -> "validity"
      [] id \in {"numeric_range", "date_range", "pattern_validation"} -> "quality"
      [] OTHER -> "statistical"

InCatalog(id) == id \in CatalogIds

\* get_enabled_tests that always starts with the global rules
get_enabled_tests_with_globals(enabled_test_ids) ==
    IF ~TruthyList(enabled_test_ids)
    THEN SelectSeq(PREDEFINED_TESTS, is_global)
    ELSE SelectSeq(PREDEFINED_TESTS, is_global) \o SelectSeq(enabled_test_ids, InCatalog)

\* get_enabled_tests: the global rules when the list is None or empty, else
\* the catalog rules named by the list, in list order
get_enabled_tests(enabled_test_ids) ==
    IF ~TruthyList(enabled_test_ids)
    THEN SelectSeq(PREDEFINED_TESTS, is_global)
    ELSE SelectSeq(enabled_test_ids, InCatalog)

(***************************************************************************)
(* Predicate compilation.  The result of generate_sql is NoSql (None),     *)
(* Raises (the lambda raises KeyError or TypeError) or the predicate, a    *)
(* record of the rule and of the names the text is built from.             *)
(***************************************************************************)
NoSql == [kind |-> "none"]
Raises == [kind |-> "raise"]

\* the temporal columns whose names the text of a rule holds
UsedColumns(id) ==
    CASE id \in {"scd2_invalid_flag_combination", "scd2_current_date_check"} ->
            {"active_flag_column", "end_date_column"}
      [] id = "scd2_no_record_after_current" -> {"begin_date_column", "active_flag_column"}
      [] id \in {"scd2_begin_date_null", "scd2_unique_begin_date"} -> {"begin_date_column"}
      [] id \in {"scd2_end_date_null", "scd2_unique_end_date"} -> {"end_date_column"}
      [] id \in {"scd2_flag_null", "scd2_one_current_row"} -> {"active_flag_column"}
      [] id \in {"scd2_date_order", "scd2_continuity"} ->
            {"begin_date_column", "end_date_column"}
      [] OTHER -> {}

Predicate(id, config) ==
    [kind |-> "catalog", id |-> id, table |-> config.full_table_name,
     columns |-> [c \in UsedColumns(id) |-> config[c]]]

\* config[key] of a list that the text joins: KeyError when the key is
\* missing, TypeError when the value is None
JoinRaises(v) == v \in {AbsentList, NullList}

generate_sql(id, config) ==
    CASE id = "table_exists" -> Predicate(id, config)
      [] id \in {"surrogate_key_null", "surrogate_key_unique"} ->
            IF Truthy(config.surrogate_key) THEN Predicate(id, config) ELSE NoSql
      [] id = "row_count_match" -> NoSql
      [] id = "no_nulls_required" ->
            IF TruthyList(config.required_columns) THEN Predicate(id, config) ELSE NoSql
      [] id = "no_duplicates_pk" ->
            IF TruthyList(config.primary_key_columns) THEN Predicate(id, config) ELSE NoSql
      [] id = "referential_integrity" ->
            IF TruthyList(config.foreign_key_checks) THEN Predicate(id, config) ELSE NoSql
      [] id \in {"scd_primary_key_null", "scd_primary_key_unique"} ->
            IF TruthyList(config.primary_keys) THEN Predicate(id, config) ELSE NoSql
      [] id \in {"scd2_invalid_flag_combination", "scd2_current_date_check"} ->
            IF Absent \in {config.active_flag_column, config.end_date_column}
            THEN Raises ELSE Predicate(id, config)
      [] id = "scd2_no_record_after_current" ->
            IF Absent \in {config.begin_date_column, config.active_flag_column}
            THEN Raises ELSE Predicate(id, config)
      [] id = "scd2_begin_date_null" ->
            IF config.begin_date_column = Absent THEN Raises ELSE Predicate(id, config)
      [] id = "scd2_end_date_null" ->
            IF config.end_date_column = Absent THEN Raises ELSE Predicate(id, config)
      [] id = "scd2_flag_null" ->
            IF config.active_flag_column = Absent THEN Raises ELSE Predicate(id, config)
      [] id = "scd2_one_current_row" ->
            IF JoinRaises(config.primary_keys) \/ config.active_flag_column = Absent
            THEN Raises ELSE Predicate(id, config)
      [] id = "scd2_date_order" ->
            IF Absent \in {config.begin_date_column, config.end_date_column}
            THEN Raises ELSE Predicate(id, config)
      [] id = "scd2_unique_begin_date" ->
            IF JoinRaises(config.primary_keys) \/ config.begin_date_column = Absent
            THEN Raises ELSE Predicate(id, config)
      [] id = "scd2_unique_end_date" ->
            IF JoinRaises(config.primary_keys) \/ config.end_date_column = Absent
            THEN Raises ELSE Predicate(id, config)
      [] id = "scd2_continuity" ->
            IF JoinRaises(config.primary_keys)
               \/ Absent \in {config.begin_date_column, config.end_date_column}
            THEN Raises ELSE Predicate(id, config)
      [] id = "numeric_range" ->
            IF TruthyList(config.numeric_range_checks) THEN Predicate(id, config) ELSE NoSql
      [] id = "date_range" ->
            IF TruthyList(config.date_range_checks) THEN Predicate(id, config) ELSE NoSql
      [] id = "pattern_validation" ->
            IF TruthyList(config.pattern_checks) THEN Predicate(id, config) ELSE NoSql
      [] OTHER ->
            IF TruthyList(config.outlier_columns) THEN Predicate(id, config) ELSE NoSql

(***************************************************************************)
(* pydantic models (models/requests.py).  A model is constructed only when *)
(* every field declared str holds a string.                                *)
(***************************************************************************)
NoResult == [status |-> "none"]

\* TestResult(...): test_name, description, status, severity and sql_query
\* are required strings.  The fields kind, slot and outcome are history:
\* which path built the result, which task, and what its query returned
\* (Fault, or the number of rows; NoQuery for the row-count pseudo-rule).
Fault == 0 - 1
NoQuery == 0 - 2

TestResultValid(test_name, description, severity) ==
    Null \notin {test_name, description, severity}

TestResult(kind, test_id, cat, status, sql, rows_affected, sample_data, error_message, outcome) ==
    [kind |-> kind, test_id |-> test_id, category |-> cat, status |-> status,
     sql_query |-> sql, rows_affected |-> rows_affected,
     sample_data |-> sample_data, error_message |-> error_message,
     outcome |-> outcome]

\* MappingResult(...): mapping_id is a required string
MappingResultValid(mapping_id) == mapping_id # Null

NoMappingResult == [kind |-> "none"]

\* mapping_info is <<file_row_count, table_row_count>>, or <<>> for None
MappingResult(mapping_id, mapping_info, predefined_results, error) ==
    [kind |-> "result", mapping_id |-> mapping_id, mapping_info |-> mapping_info,
     predefined_results |-> predefined_results, error |-> error]

(***************************************************************************)
(* The rows a query returns are numbered 1..n; rows[:10] is the prefix     *)
(* below.  A sample_data of None is the empty sequence.                    *)
(***************************************************************************)
SampleLimit == 10

Rows(n) == [j \in 1..n |-> j]
FirstRows(rows) == SubSeq(rows, 1, Min(SampleLimit, Len(rows)))

(***************************************************************************)
(* Custom rule entries.  A list of custom rules holds the names of the     *)
(* entries below; sql texts are token sequences.                           *)
(***************************************************************************)
TargetPlaceholder == "{{target}}"

CustomEntry(e) ==
    [name        |-> IF e = "noname" THEN Null ELSE e,
     sql         |-> IF e = "nosql" THEN Null ELSE "sql",
     text        |-> <<"SELECT", "FROM", TargetPlaceholder>>,
     description |-> IF e = "nodesc" THEN Null ELSE "text",
     severity    |-> IF e = "nosev" THEN Null ELSE "HIGH"]

\* raw_sql.replace('{{target}}', f"`{full_table_name}`")
ReplaceTarget(text, full_table_name) ==
    [j \in 1..Len(text) |-> IF text[j] = TargetPlaceholder THEN full_table_name ELSE text[j]]

(***************************************************************************)
(* External collaborators.  The warehouse holds the tables below; the      *)
(* metadata of a table lists its fields.                                   *)
(***************************************************************************)
ExistingTables == {"t1", "t2"}

\* bigquery_service.get_table_metadata(...)['schema']['fields']
SchemaFields(table) ==
    IF table = "t1"
    THEN << [name |-> "id", mode |-> "REQUIRED", type |-> "INTEGER"],
            [name |-> "label", mode |-> "NULLABLE", type |-> "STRING"] >>
    ELSE << [name |-> "label", mode |-> "NULLABLE", type |-> "STRING"] >>

IsIdName(f) == f.name \in {"id", "key", "uuid", "guid"}
IsRequired(f) == f.mode = "REQUIRED"
IsNumeric(f) == f.type \in {"INTEGER", "FLOAT", "NUMERIC", "BIGNUMERIC"}
Names(fields) == [j \in 1..Len(fields) |-> fields[j].name]

\* mapping.get(key, []) or [inferred from the schema]
OrInferred(v, inferred) == IF TruthyList(v) THEN v ELSE inferred

(***************************************************************************)
(* Test configurations.  Both orchestrators build a dict; a key that the   *)
(* dict of one orchestrator does not hold is Absent here.                  *)
(***************************************************************************)
\* process_scd: test_config
ScdTestConfig(m) ==
    [full_table_name      |-> m.target_table,
     primary_keys         |-> GetList(m.primary_keys, <<>>),
     surrogate_key        |-> Get(m.surrogate_key, Null),
     begin_date_column    |-> Get(m.begin_date_column, "DWBeginEffDateTime"),
     end_date_column      |-> Get(m.end_date_column, "DWEndEffDateTime"),
     active_flag_column   |-> Get(m.active_flag_column, "DWCurrentRowFlag"),
     primary_key_columns  |-> AbsentList,
     required_columns     |-> AbsentList,
     foreign_key_checks   |-> AbsentList,
     numeric_range_checks |-> AbsentList,
     date_range_checks    |-> AbsentList,
     pattern_checks       |-> AbsentList,
     outlier_columns      |-> AbsentList]

\* process_mapping: test_config (the mappings of the model carry no range,
\* pattern or foreign-key checks, so these are the empty default)
MappingTestConfig(m) ==
    [full_table_name      |-> m.target_table,
     primary_key_columns  |-> OrInferred(GetList(m.primary_key_columns, <<>>),
                                 Names(SelectSeq(SchemaFields(m.target_table), IsIdName))),
     required_columns     |-> OrInferred(GetList(m.required_columns, <<>>),
                                 Names(SelectSeq(SchemaFields(m.target_table), IsRequired))),
     outlier_columns      |-> Names(SelectSeq(SchemaFields(m.target_table), IsNumeric)),
     foreign_key_checks   |-> <<>>,
     numeric_range_checks |-> <<>>,
     date_range_checks    |-> <<>>,
     pattern_checks       |-> <<>>,
     primary_keys         |-> AbsentList,
     surrogate_key        |-> Absent,
     begin_date_column    |-> Absent,
     end_date_column      |-> Absent,
     active_flag_column   |-> Absent]

(***************************************************************************)
(* process_scd: auto-selection of the rule ids when the mapping names none.*)
(***************************************************************************)
Scd2Ids ==
    << "surrogate_key_null", "surrogate_key_unique",
       "scd2_primary_key_null",
       "scd2_begin_date_null", "scd2_end_date_null", "scd2_flag_null",
       "scd2_one_current_row", "scd2_current_date_check",
       "scd2_invalid_flag_combination", "scd2_date_order",
       "scd2_unique_begin_date", "scd2_unique_end_date",
       "scd2_continuity", "scd2_no_record_after_current" >>

Scd1Ids == << "scd1_primary_key_null", "scd1_primary_key_unique" >>

AutoSelectedIds(scd_type, test_config) ==
    << "table_exists" >>
    \o (IF Truthy(test_config.surrogate_key)
        THEN << "surrogate_key_null", "surrogate_key_unique" >> ELSE << >>)
    \o (IF scd_type = "scd1" THEN Scd1Ids
        ELSE IF scd_type = "scd2" THEN Scd2Ids ELSE << >>)

\* the list process_scd passes to get_enabled_tests; the None of a key that
\* is present with no value has no append and the run aborts before this
ScdEnabledIds(m) ==
    LET given == GetList(m.enabled_test_ids, <<>>)
    IN  IF TruthyList(given) THEN given
        ELSE AutoSelectedIds(Get(m.scd_type, "scd2"), ScdTestConfig(m))

\* the mapping after process_scd: an empty list that the mapping holds is
\* the list the ids are appended to
ScdMappingAfter(m) ==
    IF m.enabled_test_ids = <<>>
    THEN [m EXCEPT !.enabled_test_ids = ScdEnabledIds(m)]
    ELSE m

(***************************************************************************)
(* The continuation of a rule task once its query has returned `outcome`   *)
(* (Fault, or the number of rows).  Raised is a task that ends with an     *)
(* exception.                                                              *)
(***************************************************************************)
Raised == [status |-> "raised"]

ErrorText == "error"

\* process_scd.run_predefined_test, from the await of execute_query on
scd_run_predefined_test(id, sql, outcome) ==
    IF outcome = Fault
    THEN TestResult("catalog", id, category(id), "ERROR", sql, 0, <<>>, ErrorText, outcome)
    ELSE LET row_count == outcome
             is_smoke == category(id) = "smoke"
             status == IF (IF is_smoke THEN row_count > 0 ELSE row_count = 0)
                       THEN "PASS" ELSE "FAIL"
         IN  TestResult("catalog", id, category(id), status, sql,
                        IF status = "PASS" THEN 0 ELSE row_count,
                        IF status = "FAIL" /\ ~is_smoke
                        THEN FirstRows(Rows(row_count)) ELSE <<>>,
                        Null, outcome)

\* mapping_run_predefined_test whose handler leaves error_message unset
mapping_run_predefined_test_no_message(id, sql, outcome) ==
    IF outcome = Fault
    THEN TestResult("catalog", id, category(id), "ERROR", sql, 0, <<>>, Null, outcome)
    ELSE LET row_count == outcome
         IN  TestResult("catalog", id, category(id),
                        IF row_count = 0 THEN "PASS" ELSE "FAIL", sql, row_count,
                        IF row_count > 0 THEN FirstRows(Rows(row_count)) ELSE <<>>,
                        Null, outcome)

\* process_mapping.run_predefined_test, from the await of execute_query on
mapping_run_predefined_test(id, sql, outcome) ==
    IF outcome = Fault
    THEN TestResult("catalog", id, category(id), "ERROR", sql, 0, <<>>, ErrorText, outcome)
    ELSE LET row_count == outcome
         IN  TestResult("catalog", id, category(id),
                        IF row_count = 0 THEN "PASS" ELSE "FAIL", sql, row_count,
                        IF row_count > 0 THEN FirstRows(Rows(row_count)) ELSE <<>>,
                        Null, outcome)

\* process_scd.run_custom_test, from the await of execute_query on: the
\* result is built inside the try, and the handler builds the ERROR result
\* from the same entry
scd_run_custom_test(e, sql, outcome) ==
    LET ct == CustomEntry(e)
        name == ct.name
        built == name # Null /\ TestResultValid(name, ct.description, ct.severity)
        handled == name # Null /\ TestResultValid(name, "text", ct.severity)
    IN  IF outcome # Fault /\ built
        THEN LET row_count == outcome
             IN  TestResult("custom", e, "business_rule",
                            IF row_count = 0 THEN "PASS" ELSE "FAIL", sql, row_count,
                            IF row_count > 0 THEN FirstRows(Rows(row_count)) ELSE <<>>,
                            Null, outcome)
        ELSE IF handled
        THEN TestResult("custom", e, "business_rule", "ERROR", sql, 0, <<>>, ErrorText, outcome)
        ELSE Raised

\* process_mapping.run_custom_test, from the await of execute_query on: the
\* handler builds the ERROR result from constants
mapping_run_custom_test(e, sql, outcome) ==
    LET ct == CustomEntry(e)
        built == TestResultValid("text", ct.description, ct.severity)
    IN  IF outcome # Fault /\ built
        THEN LET row_count == outcome
             IN  TestResult("custom", e, "custom",
                            IF row_count = 0 THEN "PASS" ELSE "FAIL", sql, row_count,
                            IF row_count > 0 THEN FirstRows(Rows(row_count)) ELSE <<>>,
                            Null, outcome)
        ELSE TestResult("custom", e, "custom", "ERROR", sql, 0, <<>>, ErrorText, outcome)

\* row_count_match that reports the signed difference of the counts
row_count_match_signed(file_row_count, bq_row_count) ==
    TestResult("row_count", "row_count_match", "completeness",
               IF file_row_count = bq_row_count THEN "PASS" ELSE "FAIL",
               <<>>, file_row_count - bq_row_count, <<>>,
               IF file_row_count # bq_row_count THEN "mismatch" ELSE Null,
               NoQuery)

\* process_mapping: the row-count pseudo-rule
row_count_match(file_row_count, bq_row_count) ==
    TestResult("row_count", "row_count_match", "completeness",
               IF file_row_count = bq_row_count THEN "PASS" ELSE "FAIL",
               <<>>, Abs(file_row_count - bq_row_count), <<>>,
               IF file_row_count # bq_row_count THEN "mismatch" ELSE Null,
               NoQuery)

(***************************************************************************)
(* Rule tasks.  A task is created by the gather of its table and runs to   *)
(* its first await in the same pass of the event loop: it compiles its     *)
(* predicate and either ends (no predicate: result None; the compiler      *)
(* raised: exception) or hands the query to the thread pool.               *)
(***************************************************************************)
\* outcome is history: what the query of the task returned
Task(kind, id, sql, pc) ==
    [kind |-> kind, id |-> id, sql |-> sql, pc |-> pc, result |-> NoResult,
     outcome |-> NoQuery]

\* ScdCatalogTask that sends a query also when there is no predicate
ScdCatalogTask_always_queued(id, config) ==
    LET sql == generate_sql(id, config)
    IN  Task("catalog", id, sql, IF sql.kind = "raise" THEN "raised" ELSE "queued")

\* process_scd.run_predefined_test up to the await
ScdCatalogTask(id, config) ==
    LET sql == generate_sql(id, config)
    IN  Task("catalog", id, sql,
             IF sql.kind = "raise" THEN "raised" ELSE IF sql.kind = "none" THEN "done" ELSE "queued")

\* process_mapping.run_predefined_test up to the await
MappingCatalogTask(id, config) ==
    IF id = "row_count_match" THEN Task("catalog", id, NoSql, "done")
    ELSE ScdCatalogTask(id, config)

\* process_scd.run_custom_test up to the await
ScdCustomTask(e, config) ==
    LET ct == CustomEntry(e)
    IN  IF ~Truthy(ct.sql) THEN Task("custom", e, NoSql, "done")
        ELSE Task("custom", e,
                  [kind |-> "custom", text |-> ReplaceTarget(ct.text, config.full_table_name)],
                  "queued")

\* process_mapping.run_custom_test up to the await: the stored text is sent
\* as it is
MappingCustomTask(e, config) ==
    Task("custom", e, [kind |-> "custom", text |-> CustomEntry(e).text], "queued")

\* custom_tests or []
OrEmpty(list) == IF TruthyList(list) THEN list ELSE <<>>

ScdTasks(m) ==
    LET config == ScdTestConfig(m)
        enabled_tests == get_enabled_tests(ScdEnabledIds(m))
        custom_tests == OrEmpty(GetList(m.custom_tests, <<>>))
    IN  [k \in 1..Len(enabled_tests) |-> ScdCatalogTask(enabled_tests[k], config)]
        \o [k \in 1..Len(custom_tests) |-> ScdCustomTask(custom_tests[k], config)]

\* MappingTasks whose gather names the custom rule tasks first
MappingTasks_custom_first(m, active_custom_tests) ==
    LET config == MappingTestConfig(m)
        enabled_tests == get_enabled_tests(GetList(m.enabled_test_ids, <<>>))
    IN  [k \in 1..Len(active_custom_tests) |->
                MappingCustomTask(active_custom_tests[k], config)]
        \o [k \in 1..Len(enabled_tests) |-> MappingCatalogTask(enabled_tests[k], config)]

MappingTasks(m, active_custom_tests) ==
    LET config == MappingTestConfig(m)
        enabled_tests == get_enabled_tests(GetList(m.enabled_test_ids, <<>>))
    IN  [k \in 1..Len(enabled_tests) |-> MappingCatalogTask(enabled_tests[k], config)]
        \o [k \in 1..Len(active_custom_tests) |->
                MappingCustomTask(active_custom_tests[k], config)]

\* [r for r in all_raw_results if r is not None]
IsResult(t) == t.result.status # "none"
NotNone(ts) ==
    LET kept == SelectSeq(ts, IsResult)
    IN  [k \in 1..Len(kept) |-> kept[k].result]

(***************************************************************************)
(* Inputs.  A mapping is the dict handed to process_scd or process_mapping;*)
(* store is what the custom rule store holds for its target and source     *)
(* says where its source data is.                                          *)
(***************************************************************************)
Mapping(mapping_id, target_table, scd_type, primary_keys, surrogate_key, enabled_test_ids, custom_tests, source, store) ==
    [mapping_id |-> mapping_id, target_table |-> target_table,
     scd_type |-> scd_type, primary_keys |-> primary_keys,
     surrogate_key |-> surrogate_key,
     begin_date_column |-> Absent, end_date_column |-> Absent,
     active_flag_column |-> Absent,
     enabled_test_ids |-> enabled_test_ids, custom_tests |-> custom_tests,
     primary_key_columns |-> AbsentList, required_columns |-> AbsentList,
     source |-> source, store |-> store]

\* lists of custom rule entries
CustomLists(entries) ==
    {<<>>} \cup {<<e>> : e \in entries}

\* the dicts a caller passes to process_scd: every way to select the rules
\* of an existing table, every identifier, target and custom rule list for
\* an scd1 table, and every way to name the temporal columns of an scd2
\* table
ScdMappings ==
    { Mapping("m1", "t1", ty, pk, sk, ids, NullList, "none", <<>>) :
        ty \in {"scd1", "scd2", Null},
        pk \in {AbsentList, NullList, <<"k1", "k2">>},
        sk \in {Null, "sk"},
        ids \in {AbsentList, NullList, <<>>,
                 <<"scd_primary_key_null", "table_exists", "unknown_id">>} }
    \cup
    { Mapping(id, t, "scd1", <<"k1", "k2">>, Null, AbsentList, ct, "none", <<>>) :
        id \in {Absent, Null, "m1"},
        t \in {Absent, "missing", "t1"},
        ct \in CustomLists({"good", "nodesc", "nosev", "noname", "nosql"}) }
    \cup
    { [ Mapping("m1", "t1", "scd2", <<"k1", "k2">>, Null,
                <<"scd2_begin_date_null", "scd2_date_order", "scd2_flag_null">>,
                NullList, "none", <<>>)
        EXCEPT !.begin_date_column = c, !.end_date_column = c,
               !.active_flag_column = c ] :
        c \in {Absent, Null, "valid_from"} }

\* the dicts a caller passes to process_mapping: every way to select the
\* rules of an existing table, a selection with two stored custom rules,
\* and every identifier, target, source and stored custom rule list under
\* the default selection
PlainMappings ==
    { Mapping("m1", t, Absent, AbsentList, Absent, ids, AbsentList, "bq", <<>>) :
        t \in {"t1", "t2"},
        ids \in {AbsentList, NullList,
                 <<"row_count_match", "no_duplicates_pk", "scd2_continuity">>,
                 <<"no_nulls_required", "unknown_id">>,
                 <<"no_duplicates_pk", "row_count_match", "table_exists">>} }
    \cup
    { Mapping("m1", "t1", Absent, AbsentList, Absent,
              <<"no_duplicates_pk", "row_count_match", "table_exists">>,
              AbsentList, "bq", <<"good", "nodesc">>) }
    \cup
    { Mapping(id, t, Absent, AbsentList, Absent, AbsentList, AbsentList, src, st) :
        id \in {Absent, Null, "m1"},
        t \in {Absent, "missing", "t2"},
        src \in {"bq", "gcs", "none"},
        st \in CustomLists({"good", "nodesc"}) }

ScdConfigRow(config_id, target_table, custom_tests) ==
    [config_id |-> config_id, target_table |-> target_table, scd_type |-> "scd1",
     primary_keys |-> <<"k1">>, surrogate_key |-> Null,
     begin_date_column |-> Null, end_date_column |-> Null,
     active_flag_column |-> Null, custom_tests |-> custom_tests]

\* the rows of an SCD config table: a well-formed row, and rows with no
\* config_id, a target that does not exist, no target_table column and a
\* custom rule without severity
ScdConfigRows ==
    { ScdConfigRow("c1", "t1", NullList), ScdConfigRow(Null, "t1", NullList),
      ScdConfigRow("c1", "missing", NullList), ScdConfigRow("c1", Absent, NullList),
      ScdConfigRow("c1", "t1", <<"nosev">>) }

\* the rows of a mapping config table
MappingConfigRows ==
    { Mapping("m1", "t2", Absent, AbsentList, Absent, AbsentList, AbsentList, "bq", <<>>),
      Mapping(Null, "t2", Absent, AbsentList, Absent, AbsentList, AbsentList, "bq", <<>>),
      Mapping("m1", "missing", Absent, AbsentList, Absent, AbsentList, AbsentList, "bq", <<>>) }

SeqsUpTo(S, n) == UNION { [1..k -> S] : k \in 0..n }

\* process_scd_config_table: the mapping built from a config row
ScdConfigMapping(config) ==
    [ Mapping(Get(config.config_id, "default_scd"), config.target_table,
              Get(config.scd_type, "scd2"), GetList(config.primary_keys, <<>>),
              Get(config.surrogate_key, Null), AbsentList,
              GetList(config.custom_tests, NullList), "none", <<>>)
      EXCEPT !.begin_date_column = Get(config.begin_date_column, Null),
             !.end_date_column = Get(config.end_date_column, Null),
             !.active_flag_column = Get(config.active_flag_column, Null) ]

(***************************************************************************)
(* State.                                                                  *)
(***************************************************************************)
VARIABLES
    entry,      \* the function the caller awaits
    configs,    \* the rows of the config table (batch calls)
    read_done,  \* the read of the config table has returned its rows
    mappings,   \* the mapping of each table task
    bpc,        \* where the caller's call is: "start", "gather", "returned", "raised"
    tpc,        \* where each table task is
    info,       \* the row counts each table task has resolved: <<source, target>>
    tasks,      \* the rule tasks of each table task
    queue,      \* the queries handed to the thread pool and not yet returned, oldest first
    results,    \* the MappingResult each table task returned
    summary,    \* the summary of a batch call
    events,     \* rule queries that faulted or returned rows so far
    overtaken,  \* history: a rule query of the table returned while an older query was running
    query,      \* the predicate or selection under evaluation (catalog semantics)
    api,        \* the generate-tests request being served, its history rows and its response
    sync        \* the scheduler sync: its position, the config table, the jobs of the scheduler

vars == <<entry, configs, read_done, mappings, bpc, tpc, info, tasks, queue, results, summary, events, overtaken, query, api, sync>>

\* no predicate is under evaluation
Idle == [rule |-> "none"]

\* no request is being served
NoRequest == [pc |-> "none"]

\* no scheduler sync is running
NoSync == [pc |-> "none"]

Batch == {"process_scd_config_table", "process_config_table"}
IsScd == entry \in {"process_scd", "process_scd_config_table"}

NoSummary == [total_mappings |-> 0 - 1]

Tables == 1..Len(mappings)

InitCall(e, cs, ms) ==
    /\ entry = e
    /\ configs = cs
    /\ read_done = FALSE
    /\ mappings = ms
    /\ bpc = IF e \in Batch THEN "start" ELSE "gather"
    /\ tpc = [i \in 1..Len(ms) |-> "new"]
    /\ info = [i \in 1..Len(ms) |-> <<0, 0>>]
    /\ tasks = [i \in 1..Len(ms) |-> <<>>]
    /\ queue = <<>>
    /\ results = [i \in 1..Len(ms) |-> NoMappingResult]
    /\ summary = NoSummary
    /\ events = 0
    /\ overtaken = [i \in 1..Len(ms) |-> FALSE]

Init ==
    /\ query = Idle
    /\ api = NoRequest
    /\ sync = NoSync
    /\ \/ \E m \in ScdMappings : InitCall("process_scd", <<>>, <<m>>)
       \/ \E m \in PlainMappings : InitCall("process_mapping", <<>>, <<m>>)
       \/ \E cs \in SeqsUpTo(ScdConfigRows, MaxTables) :
               InitCall("process_scd_config_table", cs, <<>>)
       \/ \E cs \in SeqsUpTo(MappingConfigRows, MaxTables) :
               InitCall("process_config_table", cs, <<>>)

(***************************************************************************)
(* The batch coordinators up to their gather.                              *)
(***************************************************************************)
SpawnTables(ms) ==
    /\ mappings' = ms
    /\ tpc' = [i \in 1..Len(ms) |-> "new"]
    /\ info' = [i \in 1..Len(ms) |-> <<0, 0>>]
    /\ tasks' = [i \in 1..Len(ms) |-> <<>>]
    /\ results' = [i \in 1..Len(ms) |-> NoMappingResult]
    /\ overtaken' = [i \in 1..Len(ms) |-> FALSE]
    /\ bpc' = "gather"

BatchRaises ==
    /\ bpc' = "raised"
    /\ UNCHANGED <<mappings, tpc, info, tasks, results, overtaken>>

\* process_scd_config_table / process_config_table: the config table is
\* read; a fault of the read, an empty table and a row without a
\* target_table key raise
ReadConfig ==
    /\ bpc = "start"
    /\ \E read_ok \in BOOLEAN :
         /\ read_done' = read_ok
         /\ IF ~read_ok \/ configs = <<>>
            THEN BatchRaises
            ELSE IF entry = "process_scd_config_table"
            THEN IF \E j \in 1..Len(configs) : configs[j].target_table = Absent
                 THEN BatchRaises
                 ELSE SpawnTables([j \in 1..Len(configs) |-> ScdConfigMapping(configs[j])])
            ELSE SpawnTables(configs)
    /\ UNCHANGED <<entry, configs, queue, summary, events, query, api, sync>>

(***************************************************************************)
(* Table tasks: process_scd and process_mapping.                           *)
(***************************************************************************)
\* mapping_id = mapping.get('mapping_id', <default>)
MappingId(m) ==
    Get(m.mapping_id, IF IsScd THEN "default_scd" ELSE "unknown")

\* except Exception: return MappingResult(mapping_id=mapping_id,
\* predefined_results=[], error=str(e)); the construction raises in turn
\* when mapping_id is None
AbortTable(i) ==
    IF MappingResultValid(MappingId(mappings[i]))
    THEN /\ results' = [results EXCEPT ![i] =
                MappingResult(MappingId(mappings[i]), <<>>, <<>>, ErrorText)]
         /\ tpc' = [tpc EXCEPT ![i] = "returned"]
    ELSE /\ tpc' = [tpc EXCEPT ![i] = "raised"]
         /\ UNCHANGED results

\* return MappingResult(...) at the end of the try, same handler
ReturnTable(i, mapping_info, predefined_results) ==
    IF MappingResultValid(MappingId(mappings[i]))
    THEN /\ results' = [results EXCEPT ![i] =
                MappingResult(MappingId(mappings[i]), mapping_info, predefined_results, Null)]
         /\ tpc' = [tpc EXCEPT ![i] = "returned"]
    ELSE /\ tpc' = [tpc EXCEPT ![i] = "raised"]
         /\ UNCHANGED results

\* the queries of the tasks ts of table i, in task order
Submitted(i, ts) ==
    LET ks == SelectSeq([k \in 1..Len(ts) |-> k], LAMBDA k : ts[k].pc = "queued")
    IN  [n \in 1..Len(ks) |-> <<i, ks[n]>>]

AllDone(ts) == \A k \in 1..Len(ts) : ts[k].pc = "done"
\* SomeRaised of a gather that does not notice the exception of a task
SomeRaised_unnoticed(ts) == FALSE
SomeRaised(ts) == \E k \in 1..Len(ts) : ts[k].pc = "raised"

\* await asyncio.gather(*test_tasks, *custom_tasks): every task runs to its
\* first await; an exception of a task ends the gather of its table
Gather(i, ts) ==
    /\ tasks' = [tasks EXCEPT ![i] = ts]
    /\ queue' = queue \o Submitted(i, ts)
    /\ IF SomeRaised(ts) THEN AbortTable(i)
       ELSE /\ tpc' = [tpc EXCEPT ![i] = IF AllDone(ts) THEN "finishing" ELSE "gather"]
            /\ UNCHANGED results

NextToStart(i) == tpc[i] = "new" /\ \A j \in 1..(i - 1) : tpc[j] # "new"

\* process_scd from its entry to the await of the gather (the metadata
\* lookup does not suspend)
StartScd(i) ==
    /\ IsScd /\ bpc # "start"
    /\ NextToStart(i)
    /\ LET m == mappings[i]
       IN  IF \/ m.target_table = Absent
              \/ m.target_table \notin ExistingTables
              \/ GetList(m.enabled_test_ids, <<>>) = NullList
           THEN /\ AbortTable(i)
                /\ UNCHANGED <<mappings, tasks, queue>>
           ELSE /\ mappings' = [mappings EXCEPT ![i] = ScdMappingAfter(m)]
                /\ Gather(i, ScdTasks(m))
    /\ UNCHANGED <<sync, api, query, overtaken, entry, configs, read_done, bpc, info, summary, events>>

\* process_mapping from its entry to the await of the source row count
StartMapping(i) ==
    /\ ~IsScd /\ bpc # "start"
    /\ NextToStart(i)
    /\ LET m == mappings[i]
       IN  IF m.target_table = Absent \/ m.source = "none"
           THEN AbortTable(i)
           ELSE /\ tpc' = [tpc EXCEPT ![i] = "await_source"]
                /\ UNCHANGED results
    /\ UNCHANGED <<sync, api, query, overtaken, entry, configs, read_done, mappings, bpc, info, tasks, queue, summary, events>>

Counts == {Fault} \cup (0..MaxCount)

\* process_mapping: the source row count returns or raises (BigQuery count,
\* or the pattern lookup and the CSV count of the storage service)
SourceCounted(i) ==
    /\ tpc[i] = "await_source"
    /\ \E oc \in Counts :
         IF oc = Fault
         THEN AbortTable(i) /\ UNCHANGED info
         ELSE /\ info' = [info EXCEPT ![i] = <<oc, 0>>]
              /\ tpc' = [tpc EXCEPT ![i] = "await_target"]
              /\ UNCHANGED results
    /\ UNCHANGED <<sync, api, query, overtaken, entry, configs, read_done, mappings, bpc, tasks, queue, summary, events>>

\* process_mapping: the target row count returns or raises; then the
\* metadata, the test configuration, the rule selection and the row-count
\* pseudo-rule, up to the await of the custom rule store
TargetCounted(i) ==
    /\ tpc[i] = "await_target"
    /\ \E oc \in Counts :
         /\ mappings[i].target_table \notin ExistingTables => oc = Fault
         /\ IF oc = Fault
            THEN AbortTable(i) /\ UNCHANGED info
            ELSE /\ info' = [info EXCEPT ![i] = <<info[i][1], oc>>]
                 /\ tpc' = [tpc EXCEPT ![i] = "await_custom"]
                 /\ UNCHANGED results
    /\ UNCHANGED <<sync, api, query, overtaken, entry, configs, read_done, mappings, bpc, tasks, queue, summary, events>>

\* process_mapping: the custom rule store answers (a fault is an empty
\* list), and the gather starts
CustomFetched(i) ==
    /\ tpc[i] = "await_custom"
    /\ \E fetched \in BOOLEAN :
         Gather(i, MappingTasks(mappings[i],
                                IF fetched THEN mappings[i].store ELSE <<>>))
    /\ UNCHANGED <<sync, api, query, overtaken, entry, configs, read_done, mappings, bpc, info, summary, events>>

(***************************************************************************)
(* The thread pool runs the oldest Workers queries; one of them returns    *)
(* and the task that awaits it runs to its end.                            *)
(***************************************************************************)
Outcomes == {Fault, 0, MaxRows}

Remove(q, j) == SubSeq(q, 1, j - 1) \o SubSeq(q, j + 1, Len(q))

\* the rest of the rule task after `rows = await execute_query(sql)`
Continuation(t, outcome) ==
    IF IsScd
    THEN IF t.kind = "catalog" THEN scd_run_predefined_test(t.id, t.sql, outcome)
         ELSE scd_run_custom_test(t.id, t.sql, outcome)
    ELSE IF t.kind = "catalog" THEN mapping_run_predefined_test(t.id, t.sql, outcome)
         ELSE mapping_run_custom_test(t.id, t.sql, outcome)

Complete(j, outcome) ==
    /\ j \in 1..Min(Workers, Len(queue))
    /\ outcome # 0 => events < MaxEvents
    /\ LET i == queue[j][1]
           k == queue[j][2]
           r == Continuation(tasks[i][k], outcome)
           ts == [tasks[i] EXCEPT ![k] =
                    IF r.status = "raised"
                    THEN [@ EXCEPT !.pc = "raised", !.outcome = outcome]
                    ELSE [@ EXCEPT !.pc = "done", !.result = r, !.outcome = outcome]]
       IN  /\ tasks' = [tasks EXCEPT ![i] = ts]
           /\ IF tpc[i] # "gather" THEN UNCHANGED <<tpc, results>>
              ELSE IF SomeRaised(ts) THEN AbortTable(i)
              ELSE /\ tpc' = [tpc EXCEPT ![i] = IF AllDone(ts) THEN "finishing" ELSE "gather"]
                   /\ UNCHANGED results
    /\ queue' = Remove(queue, j)
    /\ events' = IF outcome # 0 THEN events + 1 ELSE events
    /\ overtaken' = [overtaken EXCEPT ![queue[j][1]] = @ \/ j > 1]
    /\ UNCHANGED <<sync, api, query, entry, configs, read_done, mappings, bpc, info, summary>>

\* after the gather: process_scd reads the row count of the table (a fault
\* counts as 0), process_mapping asks for AI suggestions (a fault is
\* logged); then the MappingResult is returned
FinishTable(i) ==
    /\ tpc[i] = "finishing"
    /\ IF IsScd
       THEN \E oc \in Counts :
              ReturnTable(i, <<0, IF oc = Fault THEN 0 ELSE oc>>, NotNone(tasks[i]))
       ELSE ReturnTable(i, info[i],
                        <<row_count_match(info[i][1], info[i][2])>> \o NotNone(tasks[i]))
    /\ UNCHANGED <<sync, api, query, overtaken, entry, configs, read_done, mappings, bpc, info, tasks, queue, summary, events>>

(***************************************************************************)
(* The caller gets its answer.                                             *)
(***************************************************************************)
\* CountStatus that counts every result
CountStatus_any(rs, status) == Len(rs)

\* len([t for t in r.predefined_results if t.status == status])
CountStatus(rs, status) == Len(SelectSeq(rs, LAMBDA r : r.status = status))

\* the summary of process_scd_config_table / process_config_table
Summary(rs) ==
    [total_mappings |-> Len(rs),
     total_tests |-> SeqSum([i \in 1..Len(rs) |-> Len(rs[i].predefined_results)]),
     passed |-> SeqSum([i \in 1..Len(rs) |-> CountStatus(rs[i].predefined_results, "PASS")]),
     failed |-> SeqSum([i \in 1..Len(rs) |-> CountStatus(rs[i].predefined_results, "FAIL")]),
     errors |-> SeqSum([i \in 1..Len(rs) |-> CountStatus(rs[i].predefined_results, "ERROR")])]

\* a single-table call ends when its table task ends
Return ==
    /\ entry \notin Batch
    /\ bpc = "gather"
    /\ tpc[1] \in {"returned", "raised"}
    /\ bpc' = tpc[1]
    /\ UNCHANGED <<sync, api, query, overtaken, entry, configs, read_done, mappings, tpc, info, tasks, queue, results, summary, events>>

\* results = await asyncio.gather(*tasks): the first exception of a table
\* task is raised to the caller, else the summary is computed from all
FinishBatch ==
    /\ entry \in Batch
    /\ bpc = "gather"
    /\ IF \E i \in Tables : tpc[i] = "raised"
       THEN bpc' = "raised" /\ UNCHANGED summary
       ELSE /\ \A i \in Tables : tpc[i] = "returned"
            /\ bpc' = "returned"
            /\ summary' = Summary(results)
    /\ UNCHANGED <<sync, api, query, overtaken, entry, configs, read_done, mappings, tpc, info, tasks, queue, results, events>>

Next ==
    \/ ReadConfig
    \/ \E i \in Tables : StartScd(i)
    \/ \E i \in Tables : StartMapping(i)
    \/ \E i \in Tables : SourceCounted(i)
    \/ \E i \in Tables : TargetCounted(i)
    \/ \E i \in Tables : CustomFetched(i)
    \/ \E j \in 1..Workers, outcome \in Outcomes : Complete(j, outcome)
    \/ \E i \in Tables : FinishTable(i)
    \/ Return
    \/ FinishBatch

Spec == Init /\ [][Next]_vars

\* the event loop runs a task that is ready and every call to an external
\* collaborator returns or raises: a step that can be taken is taken
LiveSpec == Spec /\ WF_vars(Next)

(***************************************************************************)
(* Catalog semantics: what get_enabled_tests answers for a list of ids and *)
(* what the query engine answers for the text of the temporal predicates   *)
(* over a table.  A table is a set of rows (versions); a NULL date is      *)
(* NullDate, which sorts first as NULL does in an ascending ORDER BY; a    *)
(* NULL flag is Null.  A comparison with NULL is not true.                 *)
(***************************************************************************)
call_vars == <<entry, configs, read_done, mappings, bpc, tpc, info, tasks, queue, results, summary, events, overtaken, api, sync>>

NullDate == 0
Dates == NullDate..MaxDate
Keys == {"a", "b"}
Flags == {"Y", "N", Null}

\* SAFE_CAST(flag AS STRING) IN ('true', 'TRUE', 'Y', '1') and its NOT IN
ActiveValues == {"true", "TRUE", "Y", "1"}
IsActive(flag) == flag # Null /\ flag \in ActiveValues
IsInactive(flag) == flag # Null /\ flag \notin ActiveValues

\* LIMIT 100
QueryLimit == 100
Limited(rows) ==
    IF Cardinality(rows) <= QueryLimit THEN {rows}
    ELSE {part \in SUBSET rows : Cardinality(part) = QueryLimit}

Row(key, begin_date, end_date, active_flag) ==
    [key |-> key, begin_date |-> begin_date, end_date |-> end_date,
     active_flag |-> active_flag]

RECURSIVE SetsUpTo(_, _)
SetsUpTo(S, n) ==
    IF n = 0 THEN {{}}
    ELSE LET smaller == SetsUpTo(S, n - 1)
         IN  smaller \cup {part \cup {x} : part \in smaller, x \in S}

\* the tables a predicate is run over: the columns it does not read hold
\* one value. The predicates treat every key alike, so the versions of key
\* "a" take every begin and end date while those of key "b", which is there
\* to tell the partitions apart, are open-ended
DatedRows ==
    {Row("a", b, e, "N") : b \in Dates, e \in Dates}
        \cup {Row("b", b, NullDate, "N") : b \in Dates}
FlaggedRows == {Row(k, b, NullDate, f) : k \in Keys, b \in Dates, f \in Flags}

\* the ids a caller lists
IdPool == {"scd2_continuity", "table_exists", "unknown_id"}

Call(rule, input, answer) ==
    [rule |-> rule, input |-> input, pc |-> "call", answer |-> answer]

\* PARTITION BY key ORDER BY begin date: any order of the rows in which the
\* rows of one key have ascending begin dates
IsOrdered(ord) ==
    \A a, b \in 1..Len(ord) :
        (a < b /\ ord[a].key = ord[b].key) => ord[a].begin_date <= ord[b].begin_date

Orderings(table) ==
    {ord \in [1..Cardinality(table) -> table] : Range(ord) = table /\ IsOrdered(ord)}

\* LEAD(begin date) OVER (PARTITION BY key ORDER BY begin date): NULL for
\* the last row of a partition
Lead(ord, a) ==
    LET later == {b \in (a + 1)..Len(ord) : ord[b].key = ord[a].key}
    IN  IF later = {} THEN NullDate
        ELSE ord[CHOOSE b \in later : \A c \in later : b <= c].begin_date

\* scd2_continuity that reports gaps only
scd2_continuity_gaps_only(ord) ==
    {ord[a] : a \in {x \in 1..Len(ord) :
        LET next_begin == Lead(ord, x)
        IN  /\ next_begin # NullDate
            /\ ord[x].end_date # NullDate
            /\ ord[x].end_date < next_begin}}

\* scd2_continuity: WHERE next_begin IS NOT NULL AND end date <> next_begin
scd2_continuity(ord) ==
    {ord[a] : a \in {x \in 1..Len(ord) :
        LET next_begin == Lead(ord, x)
        IN  /\ next_begin # NullDate
            /\ ord[x].end_date # NullDate
            /\ ord[x].end_date # next_begin}}

\* MAX(begin date) of the rows selected, NULL when there is none
MaxBegin(rows) ==
    LET dates == {r.begin_date : r \in rows} \ {NullDate}
    IN  IF dates = {} THEN NullDate ELSE CHOOSE d \in dates : \A e \in dates : e <= d

\* scd2_no_record_after_current: WHERE begin date > (SELECT MAX(begin date)
\* FROM the table WHERE the flag is active) AND the flag is not active
scd2_no_record_after_current(table) ==
    LET current == MaxBegin({r \in table : IsActive(r.active_flag)})
    IN  {r \in table : /\ r.begin_date # NullDate /\ current # NullDate
                       /\ r.begin_date > current
                       /\ IsInactive(r.active_flag)}

\* COUNTIF(the flag is active) of the group of a key
active_count(table, key) ==
    Cardinality({r \in table : r.key = key /\ IsActive(r.active_flag)})

\* scd2_one_current_row that reports only keys with several active rows
scd2_one_current_row_several(table) ==
    {<<key, active_count(table, key)>> :
        key \in {k \in {r.key : r \in table} : active_count(table, k) > 1}}

\* scd2_one_current_row: GROUP BY key HAVING active_count <> 1
scd2_one_current_row(table) ==
    {<<key, active_count(table, key)>> :
        key \in {k \in {r.key : r \in table} : active_count(table, k) # 1}}

\* the end dates of the tables scd2_invalid_flag_combination is run over:
\* a timestamp is a date and an hour, and CAST(... AS STRING) writes the
\* date before the hour
SentinelDate == <<2099, 12, 31>>
Stamp(date, hour) == [date |-> date, hour |-> hour]
Stamps ==
    {Stamp(SentinelDate, 0), Stamp(SentinelDate, 23), Stamp(<<2099, 12, 30>>, 23),
     Stamp(<<2024, 1, 1>>, 0)}
\* a NULL timestamp and the NULL text it is cast to (no cast gives a text
\* without characters)
NullStamp == Stamp(<<>>, 0)
NullText == <<>>
CastString(stamp) == IF stamp = NullStamp THEN NullText ELSE stamp.date \o <<stamp.hour>>

\* text LIKE 'prefix%' and text NOT LIKE 'prefix%': neither is true of NULL
Like(text, prefix) ==
    text # NullText /\ Len(prefix) <= Len(text) /\ SubSeq(text, 1, Len(prefix)) = prefix
NotLike(text, prefix) == text # NullText /\ ~Like(text, prefix)

SentinelFlags == {"Y", "1", "N", "false", Null}
SentinelRows ==
    {Row("a", NullDate, e, f) : e \in Stamps \cup {NullStamp}, f \in SentinelFlags}

\* scd2_invalid_flag_combination that reports active rows only
scd2_invalid_flag_combination_active_only(table) ==
    {r \in table :
        IsActive(r.active_flag) /\ NotLike(CastString(r.end_date), SentinelDate)}

\* scd2_invalid_flag_combination: WHERE (flag IN (...) AND end NOT LIKE
\* '2099-12-31%') OR (flag NOT IN (...) AND end LIKE '2099-12-31%')
scd2_invalid_flag_combination(table) ==
    {r \in table :
        \/ IsActive(r.active_flag) /\ NotLike(CastString(r.end_date), SentinelDate)
        \/ IsInactive(r.active_flag) /\ Like(CastString(r.end_date), SentinelDate)}

\* the text of a WHERE condition, as the sequence of its words
RECURSIVE Join(_, _)
Join(parts, sep) ==
    IF Len(parts) = 0 THEN <<>>
    ELSE IF Len(parts) = 1 THEN parts[1]
    ELSE parts[1] \o sep \o Join(Tail(parts), sep)

\* the config of test_sql_gen.py with the list of primary keys under test
SqlGenConfig(primary_keys) ==
    [full_table_name      |-> "project.dataset.table",
     primary_keys         |-> primary_keys,
     surrogate_key        |-> Absent,
     begin_date_column    |-> Absent,
     end_date_column      |-> "END_DT",
     active_flag_column   |-> "IS_CURRENT",
     primary_key_columns  |-> AbsentList,
     required_columns     |-> AbsentList,
     foreign_key_checks   |-> AbsentList,
     numeric_range_checks |-> AbsentList,
     date_range_checks    |-> AbsentList,
     pattern_checks       |-> AbsentList,
     outlier_columns      |-> AbsentList]

KeyNames == {"ID", "NAME", "id"}
KeyLists == SeqsUpTo(KeyNames, MaxKeys) \cup {NullList, AbsentList}

\* the WHERE condition of scd_primary_key_null joined with AND
scd_primary_key_null_where_all(config) ==
    IF generate_sql("scd_primary_key_null", config) = NoSql THEN NoSql
    ELSE Join([j \in 1..Len(config.primary_keys) |->
                  <<config.primary_keys[j], "IS NULL">>], <<"AND">>)

\* scd_primary_key_null: ' OR '.join([f"{col} IS NULL" for col in
\* config['primary_keys']]) if config.get('primary_keys') else None
scd_primary_key_null_where(config) ==
    IF generate_sql("scd_primary_key_null", config) = NoSql THEN NoSql
    ELSE Join([j \in 1..Len(config.primary_keys) |->
                  <<config.primary_keys[j], "IS NULL">>], <<"OR">>)

\* the test configs the two orchestrators build for the tables that exist
CompileConfigs ==
    {ScdTestConfig(m) : m \in {x \in ScdMappings : x.target_table = "t1"}}
        \cup {MappingTestConfig(m) :
                  m \in {x \in PlainMappings : x.target_table \in {"t1", "t2"}}}

QueryInit ==
    /\ InitCall("catalog", <<>>, <<>>)
    /\ api = NoRequest
    /\ sync = NoSync
    /\ \/ \E ids \in SeqsUpTo(IdPool, MaxIds) :
            query = Call("get_enabled_tests", ids, <<>>)
       \/ \E table \in SetsUpTo(DatedRows, MaxVersions) :
            query = Call("scd2_continuity", table, {})
       \/ \E table \in SetsUpTo(FlaggedRows, MaxVersions) :
            \E rule \in {"scd2_no_record_after_current", "scd2_one_current_row"} :
                query = Call(rule, table, {})
       \/ \E table \in SetsUpTo(SentinelRows, MaxVersions) :
            query = Call("scd2_invalid_flag_combination", table, {})
       \/ \E primary_keys \in KeyLists :
            query = Call("scd_primary_key_null", primary_keys, NoSql)
       \/ \E id \in CatalogIds, config \in CompileConfigs :
            query = Call("generate_sql", [id |-> id, config |-> config], <<>>)

Answer(rule, answers) ==
    /\ query.rule = rule
    /\ query.pc = "call"
    /\ \E answer \in answers : query' = [query EXCEPT !.pc = "done", !.answer = answer]
    /\ UNCHANGED call_vars

SelectTests ==
    Answer("get_enabled_tests", {get_enabled_tests(query.input)})

RunContinuity ==
    Answer("scd2_continuity",
           UNION {Limited(scd2_continuity(ord)) : ord \in Orderings(query.input)})

RunNoRecordAfterCurrent ==
    Answer("scd2_no_record_after_current",
           Limited(scd2_no_record_after_current(query.input)))

RunOneCurrentRow ==
    Answer("scd2_one_current_row", Limited(scd2_one_current_row(query.input)))

RunInvalidFlagCombination ==
    Answer("scd2_invalid_flag_combination",
           Limited(scd2_invalid_flag_combination(query.input)))

CompilePrimaryKeyNull ==
    Answer("scd_primary_key_null",
           {scd_primary_key_null_where(SqlGenConfig(query.input))})

\* test.generate_sql(test_config), called twice on one config: the lambda
\* reads the config and the f-string builds the text
CompileTwice ==
    /\ query.rule = "generate_sql"
    /\ query.pc \in {"call", "again"}
    /\ query' = [query EXCEPT
                    !.pc = IF @ = "call" THEN "again" ELSE "done",
                    !.answer = Append(@, generate_sql(query.input.id, query.input.config))]
    /\ UNCHANGED call_vars

QueryNext ==
    \/ SelectTests
    \/ RunContinuity
    \/ RunNoRecordAfterCurrent
    \/ RunOneCurrentRow
    \/ RunInvalidFlagCombination
    \/ CompilePrimaryKeyNull
    \/ CompileTwice

QuerySpec == QueryInit /\ [][QueryNext]_vars

(***************************************************************************)
(* The generate-tests endpoint in its scd and scd-config modes: the        *)
(* request is validated, the orchestrator is awaited, the history rows are *)
(* built and logged, and the response is built.                            *)
(***************************************************************************)
api_frame == <<entry, configs, read_done, mappings, bpc, tpc, info, tasks, queue, results, summary, events, overtaken, query, sync>>

NoResponse == [kind |-> "none"]
HttpError(status_code) == [kind |-> "http_error", status_code |-> status_code]
Body(fields) == [kind |-> "body", fields |-> fields]

\* GenerateTestsRequest in scd mode
ScdRequest(target_table, scd_type, primary_keys, surrogate_key, enabled_test_ids) ==
    [pc |-> "called", comparison_mode |-> "scd", target_table |-> target_table,
     scd_type |-> scd_type, primary_keys |-> primary_keys,
     surrogate_key |-> surrogate_key, enabled_test_ids |-> enabled_test_ids,
     rows |-> <<>>, logged |-> FALSE, response |-> NoResponse]

\* GenerateTestsRequest in scd-config mode
ScdConfigRequest(config_table) ==
    [pc |-> "called", comparison_mode |-> "scd-config", config_table |-> config_table,
     rows |-> <<>>, logged |-> FALSE, response |-> NoResponse]

ScdRequests ==
    { ScdRequest(t, ty, pk, sk, ids) :
        t \in {Null, "missing", "t1"},
        ty \in {Null, "scd1"},
        pk \in {NullList, <<"k1">>},
        sk \in {Null, "sk"},
        ids \in {NullList, <<"table_exists", "scd_primary_key_null">>} }

\* value or default
Or(v, default) == IF Truthy(v) THEN v ELSE default
OrList(v, default) == IF TruthyList(v) THEN v ELSE default

\* the mapping the scd branch builds from the request
ScdRequestMapping(request) ==
    [ Mapping(Absent, request.target_table, Or(request.scd_type, "scd2"),
              OrList(request.primary_keys, <<>>), request.surrogate_key,
              request.enabled_test_ids, NullList, "none", <<>>)
      EXCEPT !.begin_date_column = Null, !.end_date_column = Null,
             !.active_flag_column = Null ]

ApiInit ==
    /\ query = Idle
    /\ sync = NoSync
    /\ \/ \E request \in ScdRequests :
            /\ api = request
            /\ InitCall("process_scd", <<>>, <<ScdRequestMapping(request)>>)
       \/ \E config_table \in {Null, "scd_config"}, cs \in SeqsUpTo(ScdConfigRows, MaxTables) :
            /\ api = ScdConfigRequest(config_table)
            /\ InitCall("process_scd_config_table", cs, <<>>)

\* if not request.target_dataset or not request.target_table (scd), if not
\* request.config_dataset or not request.config_table (scd-config): 400
Validate ==
    /\ api.pc = "called"
    /\ LET given == IF api.comparison_mode = "scd" THEN api.target_table
                     ELSE api.config_table
       IN  api' = IF Truthy(given) THEN [api EXCEPT !.pc = "await"]
                  ELSE [api EXCEPT !.pc = "responded", !.response = HttpError(400)]
    /\ UNCHANGED api_frame

\* await test_executor.process_scd(...) / process_scd_config_table(...)
Orchestrate ==
    /\ api.pc = "await"
    /\ \/ ReadConfig
       \/ \E i \in Tables : StartScd(i)
       \/ \E j \in 1..Workers, outcome \in Outcomes : Complete(j, outcome)
       \/ \E i \in Tables : FinishTable(i)
       \/ Return
       \/ FinishBatch

\* except Exception as e: raise HTTPException(status_code=500, ...)
Unexpected ==
    /\ api.pc = "await"
    /\ bpc = "raised"
    /\ api' = [api EXCEPT !.pc = "responded", !.response = HttpError(500)]
    /\ UNCHANGED api_frame

\* the overall status of a table in the history of the scd-config mode
overall_status(predefined_results) ==
    IF CountStatus(predefined_results, "ERROR") > 0 THEN "ERROR"
    ELSE IF CountStatus(predefined_results, "FAIL") > 0 THEN "FAIL"
    ELSE "PASS"

\* the history row of one table (scd-config mode)
TableRow(mapping_result) ==
    [mapping_id |-> mapping_result.mapping_id,
     status |-> overall_status(mapping_result.predefined_results),
     total_tests |-> Len(mapping_result.predefined_results),
     error_message |-> Null]

\* the history row of one rule (scd mode)
TestRow(mapping_result, test) ==
    [mapping_id |-> mapping_result.mapping_id, test_id |-> test.test_id,
     status |-> test.status, error_message |-> test.error_message]

\* the rows are built and handed to log_scd_execution, which may raise;
\* the handler logs the exception and the branch goes on
LogHistory ==
    /\ api.pc = "await"
    /\ bpc = "returned"
    /\ \E logged \in BOOLEAN :
         api' = [api EXCEPT
                    !.pc = "logged",
                    !.logged = logged,
                    !.rows = IF api.comparison_mode = "scd-config"
                             THEN [i \in 1..Len(results) |-> TableRow(results[i])]
                             ELSE [k \in 1..Len(results[1].predefined_results) |->
                                      TestRow(results[1], results[1].predefined_results[k])]]
    /\ UNCHANGED api_frame

\* the names bound in generate_tests when the scd branch builds its
\* response: table_summary is assigned nowhere in main.py
BoundNames == {"exec_id", "request", "result", "mapping", "rows_to_log"}

\* response_data = {'execution_id': exec_id, 'comparison_mode': ...,
\* 'summary': table_summary, 'results_by_mapping': [result.dict()]}: the
\* NameError of a name that is not bound is caught by except Exception
ScdResponse ==
    IF "table_summary" \in BoundNames
    THEN Body({"execution_id", "comparison_mode", "summary", "results_by_mapping"})
    ELSE HttpError(500)

\* ConfigTableResponse(execution_id=..., comparison_mode=..., summary=...,
\* results_by_mapping=...)
ScdConfigResponse ==
    Body({"execution_id", "comparison_mode", "summary", "results_by_mapping"})

Respond ==
    /\ api.pc = "logged"
    /\ api' = [api EXCEPT
                  !.pc = "responded",
                  !.response = IF api.comparison_mode = "scd" THEN ScdResponse
                               ELSE ScdConfigResponse]
    /\ UNCHANGED api_frame

ApiNext ==
    \/ Validate
    \/ Orchestrate
    \/ Unexpected
    \/ LogHistory
    \/ Respond

ApiSpec == ApiInit /\ [][ApiNext]_vars

(***************************************************************************)
(* The scheduler sync (SchedulerService.sync_all_from_config).  A name is  *)
(* the sequence of its parts (words and separators), so that replace,      *)
(* lower and the substring tests act on it part by part.                   *)
(***************************************************************************)
sync_frame == <<entry, configs, read_done, mappings, bpc, tpc, info, tasks, queue, results, summary, events, overtaken, query, api>>

\* str.lower() and str.replace("_", "-") of one part
Lower(part) == IF part = "Cust" THEN "cust" ELSE part
Hyphen(part) == IF part = "_" THEN "-" ELSE part

\* _get_job_name: f"{self.parent}/jobs/qa-agent-{sanitized_id}"
get_job_name(config_id) ==
    <<"parent", "/jobs/", "qa-agent-">>
        \o [n \in 1..Len(config_id) |-> Lower(Hyphen(config_id[n]))]

\* pattern in name
Contains(name, pattern) ==
    \E n \in 0..(Len(name) - Len(pattern)) :
        SubSeq(name, n + 1, n + Len(pattern)) = pattern

MasterJob == get_job_name(<<"master", "-", "sync">>)
OtherJob == <<"parent", "/jobs/", "nightly", "-", "export">>

\* "/jobs/qa-agent-" in job.name and "qa-agent-master-sync" in job.name
IsManaged(name) == Contains(name, <<"/jobs/", "qa-agent-">>)
IsMasterSync(name) == Contains(name, <<"qa-agent-", "master", "-", "sync">>)

\* a config id without value
NoId == <<"null">>

\* the rows of scd_validation_config, as far as the sync reads them
SyncConfigRows ==
    {[config_id |-> id, cron_schedule |-> cron] :
        id \in {<<"dim", "_", "Cust">>, <<"old">>, NoId},
        cron \in {Null, "0 6 * * *"}}

\* the jobs of the scheduler before the sync
JobPool ==
    {get_job_name(<<"dim", "_", "Cust">>), get_job_name(<<"old">>), MasterJob, OtherJob}

SyncInit ==
    /\ InitCall("sync_all_from_config", <<>>, <<>>)
    /\ query = Idle
    /\ api = NoRequest
    /\ \E table \in SeqsUpTo(SyncConfigRows, MaxConfigs), jobs \in SUBSET JobPool :
          sync = [pc |-> "start", table |-> table, jobs |-> jobs, next |-> 1,
                  valid_job_names |-> {}, all_jobs |-> {}, deleted |-> {}]

\* await self.ensure_master_sync_job(): the job is created or updated, or
\* the call fails and returns False
EnsureMasterSync ==
    /\ sync.pc = "start"
    /\ \E ok \in BOOLEAN :
          sync' = [sync EXCEPT !.pc = "read",
                               !.jobs = IF ok THEN @ \cup {MasterJob} ELSE @]
    /\ UNCHANGED sync_frame

\* scd_configs = await bigquery_service.read_scd_config_table(...): a fault
\* is logged and the sync goes on to the cleanup
ReadScdConfigs ==
    /\ sync.pc = "read"
    /\ \E ok \in BOOLEAN :
          sync' = [sync EXCEPT !.pc = IF ok THEN "upsert" ELSE "list"]
    /\ UNCHANGED sync_frame

\* one turn of `for config in scd_configs`: a row without cron is skipped;
\* the job name of a config_id None raises AttributeError, which ends the
\* loop; else the name is tracked and the job is upserted, which may fail
UpsertNext ==
    /\ sync.pc = "upsert"
    /\ IF sync.next > Len(sync.table)
       THEN sync' = [sync EXCEPT !.pc = "list"]
       ELSE LET config == sync.table[sync.next]
            IN  IF ~Truthy(config.cron_schedule)
                THEN sync' = [sync EXCEPT !.next = @ + 1]
                ELSE IF config.config_id = NoId
                THEN sync' = [sync EXCEPT !.pc = "list"]
                ELSE \E ok \in BOOLEAN :
                       sync' = [sync EXCEPT
                                  !.next = @ + 1,
                                  !.valid_job_names = @ \cup {get_job_name(config.config_id)},
                                  !.jobs = IF ok THEN @ \cup {get_job_name(config.config_id)}
                                           ELSE @]
    /\ UNCHANGED sync_frame

\* all_jobs = self.client.list_jobs(parent=self.parent): a fault ends the
\* cleanup
ListJobs ==
    /\ sync.pc = "list"
    /\ \E ok \in BOOLEAN :
          sync' = IF ok THEN [sync EXCEPT !.pc = "cleanup", !.all_jobs = sync.jobs]
                  ELSE [sync EXCEPT !.pc = "done"]
    /\ UNCHANGED sync_frame

\* one turn of `for job in all_jobs`: a managed job other than the master
\* sync whose name is not in valid_job_names is deleted, which may fail
DeleteNext ==
    /\ sync.pc = "cleanup"
    /\ IF sync.all_jobs = {}
       THEN sync' = [sync EXCEPT !.pc = "done"]
       ELSE \E job \in sync.all_jobs :
              IF IsManaged(job) /\ ~IsMasterSync(job) /\ job \notin sync.valid_job_names
              THEN \E ok \in BOOLEAN :
                     sync' = [sync EXCEPT
                                !.all_jobs = @ \ {job},
                                !.jobs = IF ok THEN @ \ {job} ELSE @,
                                !.deleted = IF ok THEN @ \cup {job} ELSE @]
              ELSE sync' = [sync EXCEPT !.all_jobs = @ \ {job}]
    /\ UNCHANGED sync_frame

SyncNext ==
    \/ EnsureMasterSync
    \/ ReadScdConfigs
    \/ UpsertNext
    \/ ListJobs
    \/ DeleteNext

SyncSpec == SyncInit /\ [][SyncNext]_vars

(***************************************************************************)
(* Properties.                                                             *)
(***************************************************************************)
Returned(i) == results[i].kind = "result"
Completed(i) == Returned(i) /\ results[i].error = Null
ResultsOf(i) == results[i].predefined_results
Ran(t) == t.outcome # NoQuery
Succeeded(t) == t.outcome >= 0
IsPrefix(a, b) == Len(a) <= Len(b) /\ \A n \in 1..Len(a) : a[n] = b[n]

\* C1: batch isolation: once the config table has been read and holds rows,
\* the batch call does not raise, and it returns one MappingResult per row
\* and total_mappings equal to the number of rows, a failed table having
\* error set and an empty result list
C1_BatchIsolation ==
    (entry \in Batch /\ read_done /\ configs # <<>>) =>
        /\ bpc # "raised"
        /\ bpc = "returned" =>
            /\ Len(results) = Len(configs)
            /\ summary.total_mappings = Len(configs)
            /\ \A i \in Tables :
                /\ Returned(i)
                /\ results[i].error # Null => Len(ResultsOf(i)) = 0

\* C2: a single-table run never raises: process_mapping and process_scd end
\* by returning a MappingResult, whatever the mapping holds and whichever
\* collaborator faults
C2_NeverRaises ==
    \A i \in Tables : tpc[i] # "raised"

\* C3: per-rule error isolation: a rule whose query faulted ends with an
\* ERROR result that has error_message set and 0 affected rows, and the
\* table still returns, without error, the results of all its rule tasks
C3_RuleErrorIsolation ==
    \A i \in Tables : \A k \in 1..Len(tasks[i]) :
        tasks[i][k].outcome = Fault =>
            /\ tasks[i][k].pc = "done"
            /\ tasks[i][k].result.status = "ERROR"
            /\ tasks[i][k].result.error_message # Null
            /\ tasks[i][k].result.rows_affected = 0
            /\ tpc[i] # "raised"
            /\ Returned(i) =>
                /\ results[i].error = Null
                /\ \A k2 \in 1..Len(tasks[i]) :
                    /\ tasks[i][k2].pc = "done"
                    /\ Ran(tasks[i][k2]) =>
                         \E n \in 1..Len(ResultsOf(i)) : ResultsOf(i)[n] = tasks[i][k2].result

CatalogIdsOf(ts) == {ts[k].id : k \in {n \in 1..Len(ts) : ts[n].kind = "catalog"}}

\* the table task i of process_scd has selected its rules with no explicit
\* rule list
AutoSelected(i) ==
    /\ IsScd
    /\ mappings[i].enabled_test_ids = AbsentList
    /\ tasks[i] # <<>>

\* C4: rule-set cardinality: with a surrogate key and no explicit rule
\* list, process_scd selects exactly 5 catalog rules for scd1 and exactly
\* 15 for scd2
C4_RuleSetCardinality ==
    \A i \in Tables :
        (AutoSelected(i) /\ Truthy(mappings[i].surrogate_key)) =>
            /\ mappings[i].scd_type = "scd1" => Cardinality(CatalogIdsOf(tasks[i])) = 5
            /\ mappings[i].scd_type = "scd2" => Cardinality(CatalogIdsOf(tasks[i])) = 15

PrimaryKeyNullIds == {"scd_primary_key_null", "scd1_primary_key_null", "scd2_primary_key_null"}
PrimaryKeyUniqueIds == {"scd_primary_key_unique", "scd1_primary_key_unique"}
HasResultOf(i, ids) == \E n \in 1..Len(ResultsOf(i)) : ResultsOf(i)[n].test_id \in ids

\* C5: default rule membership: a process_scd run with no explicit rule
\* list and primary keys returns a result of the primary-key not-null rule
\* for scd1 and scd2, and of the primary-key uniqueness rule for scd1
C5_DefaultRuleMembership ==
    \A i \in Tables :
        (AutoSelected(i) /\ Completed(i) /\ TruthyList(mappings[i].primary_keys)) =>
            /\ mappings[i].scd_type \in {"scd1", "scd2"} => HasResultOf(i, PrimaryKeyNullIds)
            /\ mappings[i].scd_type = "scd1" => HasResultOf(i, PrimaryKeyUniqueIds)

\* the rule tasks that ended with a TestResult
ResultTasks ==
    {t \in UNION {Range(tasks[i]) : i \in Tables} : t.pc = "done" /\ t.result.status # "none"}

\* C6: verdict convention: the result of a non-smoke catalog rule or of a
\* custom rule whose query succeeded is FAIL when the query returned rows,
\* PASS when it returned none, and never ERROR
C6_VerdictConvention ==
    \A t \in ResultTasks :
        (Succeeded(t) /\ t.result.category # "smoke") =>
            t.result.status = (IF t.outcome > 0 THEN "FAIL" ELSE "PASS")

\* C7: smoke-rule inversion: in process_scd and in process_mapping the
\* result of a smoke rule whose query succeeded is PASS when the query
\* returned at least one row and FAIL when it returned none
C7_SmokeInversion ==
    \A t \in ResultTasks :
        (Succeeded(t) /\ t.result.category = "smoke") =>
            t.result.status = (IF t.outcome > 0 THEN "PASS" ELSE "FAIL")

\* the TestResults of the MappingResults returned so far
ReturnedResults ==
    UNION {Range(ResultsOf(i)) : i \in {n \in Tables : Returned(n)}}

C9_SampleEvidence ==
    \A r \in ReturnedResults :
        /\ Len(r.sample_data) <= 10
        /\ IsPrefix(r.sample_data, Rows(IF r.outcome > 0 THEN r.outcome ELSE 0))
        /\ r.sample_data # <<>> => (r.status = "FAIL" /\ r.category # "smoke")

\* C10: row-count pseudo-rule: the row_count_match result of a
\* process_mapping run is the first result, is PASS when the source and
\* target row counts are equal and FAIL otherwise, and its affected row
\* count is the absolute difference of the two counts
C10_RowCountRule ==
    \A i \in Tables :
        (~IsScd /\ Completed(i)) =>
            LET r == ResultsOf(i)[1]
                source_rows == results[i].mapping_info[1]
                target_rows == results[i].mapping_info[2]
            IN  /\ r.test_id = "row_count_match"
                /\ r.status = (IF source_rows = target_rows THEN "PASS" ELSE "FAIL")
                /\ r.rows_affected >= 0
                /\ r.rows_affected \in {source_rows - target_rows, target_rows - source_rows}

\* a process_mapping run returned with fewer source rows than target rows
\* and a failed row-count result
C10_Witness ==
    \E i \in Tables :
        /\ ~IsScd /\ Completed(i)
        /\ results[i].mapping_info[1] < results[i].mapping_info[2]
        /\ ResultsOf(i)[1].status = "FAIL"
        /\ ResultsOf(i)[1].rows_affected = 1

\* the first position of x in the sequence seq
Position(seq, x) ==
    CHOOSE n \in 1..Len(seq) : seq[n] = x /\ \A n2 \in 1..(n - 1) : seq[n2] # x

\* the order in which the mapping m selects catalog rules: its explicit
\* list, or the catalog when it has none
SelectionOrder(m) ==
    IF TruthyList(m.enabled_test_ids) THEN m.enabled_test_ids ELSE PREDEFINED_TESTS

\* C11: canonical result order: in every process_mapping run that returns
\* without error, the row_count_match result occurs exactly once and first,
\* then come the catalog results in selection order, then the custom
\* results in store order, whatever order the queries returned in
C11_CanonicalOrder ==
    \A i \in Tables :
        (~IsScd /\ Completed(i)) =>
            LET rs == ResultsOf(i)
                m == mappings[i]
            IN  /\ rs[1].kind = "row_count"
                /\ \A n \in 2..Len(rs) :
                      rs[n].kind # "row_count" /\ rs[n].test_id # "row_count_match"
                /\ \A a, b \in 2..Len(rs) :
                      a < b =>
                        /\ rs[a].kind = "custom" => rs[b].kind = "custom"
                        /\ (rs[a].kind = "catalog" /\ rs[b].kind = "catalog") =>
                              Position(SelectionOrder(m), rs[a].test_id)
                                < Position(SelectionOrder(m), rs[b].test_id)
                        /\ (rs[a].kind = "custom" /\ rs[b].kind = "custom") =>
                              Position(m.store, rs[a].test_id)
                                < Position(m.store, rs[b].test_id)
                /\ \A n \in 2..Len(rs) :
                      rs[n].test_id \in
                        (IF rs[n].kind = "catalog" THEN Range(SelectionOrder(m))
                         ELSE Range(m.store))

\* a process_mapping run whose list names row_count_match returned two
\* catalog results and two custom results after a query had returned
\* before an older one
C11_Witness ==
    \E i \in Tables :
        /\ ~IsScd /\ Completed(i)
        /\ overtaken[i]
        /\ "row_count_match" \in Range(mappings[i].enabled_test_ids)
        /\ Len(ResultsOf(i)) = 5
        /\ ResultsOf(i)[2].kind = "catalog" /\ ResultsOf(i)[5].kind = "custom"

\* a rule predicate of table i was handed to the query engine
Sent(i) ==
    \E k \in 1..Len(tasks[i]) : tasks[i][k].sql.kind \in {"catalog", "custom"}

\* C12: MappingResult.error is set only if the run aborted before any rule
\* executed: a returned MappingResult of a run that sent at least one rule
\* predicate to the query engine has error unset and holds the result of
\* every rule task that ended with one
C12_ErrorOnlyBeforeRules ==
    \A i \in Tables :
        (Returned(i) /\ Sent(i)) =>
            /\ results[i].error = Null
            /\ \A k \in 1..Len(tasks[i]) :
                  (tasks[i][k].pc = "done" /\ Ran(tasks[i][k])) =>
                      tasks[i][k].result \in Range(ResultsOf(i))

\* the rule tasks of table i that had a predicate
WithPredicate(i) ==
    {k \in 1..Len(tasks[i]) : tasks[i][k].sql.kind \in {"catalog", "custom"}}

\* the tables of the call that returned without error
CompletedTables == {i \in Tables : Completed(i)}

\* the results a call expects of its tables when only rules with a
\* predicate count, the row-count pseudo-rule of process_mapping apart
RECURSIVE ExpectedTests(_)
ExpectedTests(S) ==
    IF S = {} THEN 0
    ELSE LET i == CHOOSE x \in S : TRUE
         IN  Cardinality(WithPredicate(i)) + (IF IsScd THEN 0 ELSE 1)
               + ExpectedTests(S \ {i})

\* C13 as claimed: no TestResult of a MappingResult carries the id of a
\* selected rule for which generate_sql returns no predicate
C13_NoResultForRuleWithoutPredicate ==
    \A i \in CompletedTables : \A k \in 1..Len(tasks[i]) :
        tasks[i][k].sql.kind = "none" =>
            \A r \in Range(ResultsOf(i)) : r.test_id # tasks[i][k].id

\* C13: not-applicable rules are skipped: a rule task without predicate
\* sends no query and ends without TestResult, the results of a
\* MappingResult are those of the rule tasks that had a predicate (after
\* the row-count pseudo-rule result in process_mapping, which is there
\* whether or not row_count_match is selected), and the totals of a batch
\* summary count these results only
C13_NotApplicableSkipped ==
    /\ \A i \in Tables : \A k \in 1..Len(tasks[i]) :
          tasks[i][k].sql.kind = "none" =>
              /\ tasks[i][k].pc = "done"
              /\ tasks[i][k].result.status = "none"
              /\ tasks[i][k].outcome = NoQuery
              /\ <<i, k>> \notin Range(queue)
              /\ Completed(i) =>
                    \A r \in Range(ResultsOf(i)) :
                        r.kind # "row_count" => r.test_id # tasks[i][k].id
    /\ \A i \in CompletedTables :
          Len(ResultsOf(i)) = Cardinality(WithPredicate(i)) + (IF IsScd THEN 0 ELSE 1)
    /\ (entry \in Batch /\ bpc = "returned") =>
          /\ summary.total_tests = ExpectedTests(CompletedTables)
          /\ summary.passed + summary.failed + summary.errors = summary.total_tests

\* a batch returned its summary after a table completed with a rule that
\* had a predicate and a rule other than row_count_match that had none
C13_Witness ==
    /\ entry \in Batch /\ bpc = "returned"
    /\ summary.total_tests >= 2
    /\ \E i \in CompletedTables :
          /\ WithPredicate(i) # {}
          /\ \E k \in 1..Len(tasks[i]) :
                tasks[i][k].sql.kind = "none" /\ tasks[i][k].id # "row_count_match"

\* the call of the catalog under evaluation has been answered
Answered(rule) == query.rule = rule /\ query.pc = "done"

\* C14: explicit rule selection: for a non-empty list of ids,
\* get_enabled_tests returns the catalog rules whose id occurs in the list,
\* once per occurrence and in list order, and nothing else: ids that are
\* not in the catalog are dropped and no global rule is added
C14_ExplicitSelection ==
    (Answered("get_enabled_tests") /\ query.input # <<>>) =>
        LET known == {n \in 1..Len(query.input) : query.input[n] \in CatalogIds}
        IN  /\ Len(query.answer) = Cardinality(known)
            /\ \A n \in known :
                  query.answer[Cardinality({p \in known : p <= n})] = query.input[n]
            /\ Range(query.answer) \subseteq Range(query.input) \cap CatalogIds

\* get_enabled_tests answered a list of an unknown id and two rules, one
\* of them not global, the later-listed rule being the earlier in the catalog
C14_Witness ==
    /\ Answered("get_enabled_tests")
    /\ query.input = <<"unknown_id", "scd2_continuity", "table_exists">>
    /\ query.answer = <<"scd2_continuity", "table_exists">>

\* the places <<table, position>> of the TestResults returned to the batch
ResultSlots ==
    UNION {{<<i, n>> : n \in 1..Len(ResultsOf(i))} : i \in {x \in Tables : Returned(x)}}

SlotsWith(status) == {slot \in ResultSlots : ResultsOf(slot[1])[slot[2]].status = status}

\* C15: aggregation: the summary of a batch has total_tests, passed, failed
\* and errors equal to the number of TestResults in the returned
\* MappingResults and to the numbers of those with status PASS, FAIL and
\* ERROR, in whatever order the table tasks and their queries completed
C15_Aggregation ==
    (entry \in Batch /\ bpc = "returned") =>
        /\ summary.total_tests = Cardinality(ResultSlots)
        /\ summary.passed = Cardinality(SlotsWith("PASS"))
        /\ summary.failed = Cardinality(SlotsWith("FAIL"))
        /\ summary.errors = Cardinality(SlotsWith("ERROR"))

\* a batch of two tables returned a summary with passed and not-passed
\* results after a query of the second table had returned before an older
\* query
C15_Witness ==
    /\ entry \in Batch /\ bpc = "returned"
    /\ summary.total_mappings = 2
    /\ overtaken[2]
    /\ summary.passed >= 1
    /\ summary.failed + summary.errors >= 1
    /\ summary.total_tests >= 3

\* the fixed name of a temporal column
DefaultColumn(c) ==
    CASE c = "begin_date_column" -> "DWBeginEffDateTime"
      [] c = "end_date_column" -> "DWEndEffDateTime"
      [] OTHER -> "DWCurrentRowFlag"

\* C16: context defaulting: every temporal column name in a predicate that
\* a process_scd run compiled is the name the caller supplied, or the fixed
\* default name when the caller supplied none, the key being absent or
\* holding null; no predicate holds a null column name
C16_ContextDefaulting ==
    \A i \in Tables : \A k \in 1..Len(tasks[i]) :
        (IsScd /\ tasks[i][k].sql.kind = "catalog") =>
            \A c \in DOMAIN tasks[i][k].sql.columns :
                /\ tasks[i][k].sql.columns[c] # Null
                /\ tasks[i][k].sql.columns[c] =
                      (IF mappings[i][c] \in {Absent, Null}
                       THEN DefaultColumn(c) ELSE mappings[i][c])

\* the stored text of the custom rule of a task
StoredText(t) == CustomEntry(t.id).text

\* C17: custom-rule placeholder substitution: the text of every custom
\* rule predicate handed to the query engine, by process_mapping and by
\* process_scd, is the stored text with each {{target}} placeholder
\* replaced by the table identifier of the run, and holds no placeholder
C17_PlaceholderSubstitution ==
    \A i \in Tables : \A k \in 1..Len(tasks[i]) :
        (tasks[i][k].kind = "custom" /\ tasks[i][k].sql.kind = "custom") =>
            LET text == tasks[i][k].sql.text
                stored == StoredText(tasks[i][k])
            IN  /\ TargetPlaceholder \notin Range(text)
                /\ Len(text) = Len(stored)
                /\ \A n \in 1..Len(stored) :
                      text[n] = (IF stored[n] = TargetPlaceholder
                                 THEN mappings[i].target_table ELSE stored[n])

\* the row y can be the next row of x when the rows of the key of x are
\* ordered by begin date
MayFollow(table, x, y) ==
    /\ y # x /\ y.key = x.key
    /\ x.begin_date <= y.begin_date
    /\ ~\E z \in table \ {x, y} :
          z.key = x.key /\ x.begin_date < z.begin_date /\ z.begin_date < y.begin_date

\* an end date and the next begin date differ: a gap or an overlap
Differs(end_date, next_begin) ==
    /\ end_date # NullDate /\ next_begin # NullDate
    /\ (end_date < next_begin \/ end_date > next_begin)

\* no other row of the key of x begins when x begins
BeginsAlone(table, x) ==
    ~\E y \in table \ {x} : y.key = x.key /\ y.begin_date = x.begin_date

\* C18: continuity rule: the rows that scd2_continuity returns are rows of
\* the table with a next row in their key, ordered by begin date, whose
\* begin date differs from their end date (a gap or an overlap), and every
\* such row is returned; a key that is chained throughout and a key with
\* one version yield no row
C18_Continuity ==
    Answered("scd2_continuity") =>
        LET table == query.input
        IN  /\ \A x \in query.answer :
                  /\ x \in table
                  /\ \E y \in table :
                        MayFollow(table, x, y) /\ Differs(x.end_date, y.begin_date)
            /\ \A x \in table :
                  ( /\ BeginsAlone(table, x)
                    /\ \E y \in table : MayFollow(table, x, y)
                    /\ \A y \in table :
                          MayFollow(table, x, y) => Differs(x.end_date, y.begin_date) )
                  => x \in query.answer
            /\ \A x \in table :
                  (\A y \in table : y.key = x.key => y = x) => x \notin query.answer

\* scd2_continuity answered a table of three versions of one key, the
\* first ending before the second begins and the second ending when the
\* third begins, with the first version alone
C18_Witness ==
    /\ Answered("scd2_continuity")
    /\ \E x, y, z \in query.input :
          /\ x.key = y.key /\ y.key = z.key
          /\ NullDate < x.begin_date /\ x.begin_date < y.begin_date
          /\ y.begin_date < z.begin_date
          /\ x.end_date # NullDate /\ x.end_date < y.begin_date
          /\ y.end_date = z.begin_date
          /\ query.answer = {x}

\* the active rows of the key of x that have a begin date
CurrentRows(table, x) ==
    {y \in table : y.key = x.key /\ IsActive(y.active_flag) /\ y.begin_date # NullDate}

\* the inactive row x begins after the active row (after every active row)
\* of its own key
AfterCurrent(table, x) ==
    /\ IsInactive(x.active_flag)
    /\ x.begin_date # NullDate
    /\ CurrentRows(table, x) # {}
    /\ \A y \in CurrentRows(table, x) : x.begin_date > y.begin_date

\* C19: no orphan future version: scd2_no_record_after_current returns
\* every inactive row that begins after the active row of its own key, and
\* no other row
C19_NoRecordAfterCurrent ==
    Answered("scd2_no_record_after_current") =>
        query.answer = {x \in query.input : AfterCurrent(query.input, x)}

\* the rows of a key that are flagged active
ActiveRows(table, key) == {x \in table : x.key = key /\ x.active_flag = "Y"}

\* C20: single current version: scd2_one_current_row returns one group,
\* with its number of active rows, for each key of the table whose number
\* of active-flagged rows is not 1 (none, or two or more), and no group for
\* a key with exactly one active row
C20_OneCurrentRow ==
    Answered("scd2_one_current_row") =>
        LET table == query.input
        IN  /\ \A x \in table :
                  LET n == Cardinality(ActiveRows(table, x.key))
                  IN  /\ n # 1 => <<x.key, n>> \in query.answer
                      /\ n = 1 => \A g \in query.answer : g[1] # x.key
            /\ \A g \in query.answer :
                  /\ \E x \in table : x.key = g[1]
                  /\ g[2] = Cardinality(ActiveRows(table, g[1]))
                  /\ g[2] # 1

\* scd2_one_current_row answered a table with a key of two active rows and
\* a key of one active row
C20_Witness ==
    /\ Answered("scd2_one_current_row")
    /\ Cardinality(ActiveRows(query.input, "a")) = 2
    /\ Cardinality(ActiveRows(query.input, "b")) = 1
    /\ query.answer = {<<"a", 2>>}

\* the end date of the row is on the sentinel date
OnSentinel(r) == r.end_date.date = SentinelDate

\* C21: sentinel consistency: over the rows with a flag and an end date,
\* scd2_invalid_flag_combination returns exactly the active rows whose end
\* date is not on the sentinel date and the inactive rows whose end date is
\* on it; an active row that ends on the sentinel date and an inactive row
\* that ends on another date are not returned
C21_SentinelConsistency ==
    Answered("scd2_invalid_flag_combination") =>
        \A r \in query.input :
            (r.active_flag # Null /\ r.end_date # NullStamp) =>
                (r \in query.answer <=>
                    \/ r.active_flag \in ActiveValues /\ ~OnSentinel(r)
                    \/ r.active_flag \notin ActiveValues /\ OnSentinel(r))

\* scd2_invalid_flag_combination answered a table that holds an active row
\* off the sentinel date, an inactive row on it late in the day, and a
\* correctly paired row, and returned the first two only
C21_Witness ==
    /\ Answered("scd2_invalid_flag_combination")
    /\ \E x, y, z \in query.input :
          /\ x.active_flag = "1" /\ x.end_date # NullStamp /\ ~OnSentinel(x)
          /\ y.active_flag = "false" /\ y.end_date = Stamp(SentinelDate, 23)
          /\ z.active_flag = "Y" /\ z.end_date # NullStamp /\ OnSentinel(z)
          /\ query.answer = {x, y}

\* C22: not-null predicate construction: for a list of n >= 1 primary keys
\* the condition of scd_primary_key_null is "k1 IS NULL OR ... OR kn IS
\* NULL" with the keys in list order, and for an empty, null or missing
\* list there is no predicate
C22_NotNullConstruction ==
    Answered("scd_primary_key_null") =>
        LET keys == query.input
            text == query.answer
        IN  IF keys \in {<<>>, NullList, AbsentList} THEN text = NoSql
            ELSE /\ text # NoSql
                 /\ Len(text) = 3 * Len(keys) - 1
                 /\ \A j \in 1..Len(keys) :
                       /\ text[3 * j - 2] = keys[j]
                       /\ text[3 * j - 1] = "IS NULL"
                       /\ j < Len(keys) => text[3 * j] = "OR"

\* the condition was compiled for the keys ID and NAME of test_sql_gen.py
C22_Witness ==
    /\ Answered("scd_primary_key_null")
    /\ query.input = <<"ID", "NAME">>
    /\ query.answer = <<"ID", "IS NULL", "OR", "NAME", "IS NULL">>

\* C23: predicate determinism and purity: two calls of generate_sql on one
\* config give the same predicate text or twice "not applicable", and no
\* query is handed to the engine
C23_CompileDeterministic ==
    Answered("generate_sql") =>
        /\ query.answer[1] = query.answer[2]
        /\ query.answer[1].kind \in {"catalog", "none"}
        /\ queue = <<>>

\* two calls of generate_sql on one config end alike (with the same text,
\* twice without predicate, or twice with an exception) and no query is
\* handed to the engine
CompileRepeatable ==
    Answered("generate_sql") =>
        /\ query.answer[1] = query.answer[2]
        /\ queue = <<>>

\* a rule task or custom-rule task of table i awaits its query
Running(i) == \E k \in 1..Len(tasks[i]) : tasks[i][k].pc = "queued"

\* C24: join semantics: a MappingResult is returned only when no rule task
\* or custom-rule task of its table is still running, and the summary of a
\* batch is computed only when every table task has returned and no task
\* of the batch is still running
C24_JoinSemantics ==
    /\ \A i \in Tables : Returned(i) => ~Running(i)
    /\ summary # NoSummary =>
            \A i \in Tables : tpc[i] = "returned" /\ ~Running(i)

\* C25: one result per rule: in a MappingResult that process_scd returns
\* for a mapping without the enabled_test_ids key (the rules are selected
\* from the scd_type and the surrogate key), no two TestResults carry the
\* id of the same catalog rule
C25_OneResultPerRule ==
    \A i \in Tables :
        (IsScd /\ Returned(i) /\ mappings[i].enabled_test_ids = AbsentList) =>
            \A p, q \in 1..Len(ResultsOf(i)) :
                ( /\ p # q
                  /\ ResultsOf(i)[p].kind = "catalog"
                  /\ ResultsOf(i)[q].kind = "catalog" )
                => ResultsOf(i)[p].test_id # ResultsOf(i)[q].test_id

\* C26: scd-config history: the history row of a table whose run aborted
\* (its MappingResult has error set and no results) does not have status
\* PASS, and a row has status PASS only if the table ran rules and none of
\* its results is FAIL or ERROR
C26_HistoryStatus ==
    ( /\ api.pc \in {"logged", "responded"}
      /\ api.comparison_mode = "scd-config"
      /\ api.logged ) =>
        \A i \in 1..Len(api.rows) :
            api.rows[i].status = "PASS" =>
                /\ results[i].error = Null
                /\ Len(ResultsOf(i)) > 0
                /\ CountStatus(ResultsOf(i), "FAIL") = 0
                /\ CountStatus(ResultsOf(i), "ERROR") = 0

\* C27: scd mode response: a request with target_dataset and target_table
\* whose process_scd call returned a MappingResult is answered with
\* execution_id, comparison_mode, summary and results_by_mapping and not
\* with an HTTP error, whether or not the history was logged
C27_ScdModeResponse ==
    ( /\ api.pc = "responded"
      /\ api.comparison_mode = "scd"
      /\ Truthy(api.target_table)
      /\ bpc = "returned" )
    => api.response =
          Body({"execution_id", "comparison_mode", "summary", "results_by_mapping"})

\* a configuration of the config table with a cron schedule maps to the job
Scheduled(job) ==
    \E n \in 1..Len(sync.table) :
        /\ Truthy(sync.table[n].cron_schedule)
        /\ sync.table[n].config_id # NoId
        /\ get_job_name(sync.table[n].config_id) = job

\* C28: scheduler sync safety: a job that the sync deleted is a qa-agent
\* job to which no configuration of the config table with a cron schedule
\* maps, and it is not the master-sync job
C28_SyncSafety ==
    sync.pc # "none" =>
        \A job \in sync.deleted :
            IsManaged(job) /\ job # MasterJob /\ ~Scheduled(job)

\* C29: process_scd leaves its input unchanged: no step of a process_scd
\* call changes the mapping it was passed or a list the mapping holds
C29_InputUnchanged == [][entry = "process_scd" => mappings' = mappings]_vars

\* the call has ended and no task of it is left: the caller has its
\* summary or an exception, every table task has returned or raised and no
\* rule task awaits its query
Ended ==
    /\ bpc \in {"returned", "raised"}
    /\ bpc = "returned" => summary # NoSummary
    /\ \A i \in Tables : tpc[i] \in {"returned", "raised"} /\ ~Running(i)
    /\ queue = <<>>

====
